---- MODULE Spec2Model ----
(***************************************************************************)
(* Limit order book matching engine (crate matching-engine).               *)
(*                                                                         *)
(* The book is modelled as the fields of LimitOrderBook: the two price     *)
(* ladders (BTreeMap<Price, Vec<Order>>), the id index                     *)
(* (HashMap<OrderId, (OrderSide, Price)>) and recent_trades.  One action   *)
(* stands for one public call (add_order, cancel_order); the match loop is *)
(* a recursive operator that is unrolled inside the add_order action.      *)
(*                                                                         *)
(* Prices are integers of minor units (cents).  Quantity is a u64; the     *)
(* model counts quantities in blocks of 2^62 units, so that the quantity q *)
(* of the model is the u64 value q * 2^62 and the u64 range ends at        *)
(* U64Modulus = 4 blocks.  Comparisons, minima and differences are the     *)
(* same on blocks and on units, and a sum of blocks leaves the range       *)
(* exactly when the sum of the u64 values does.                            *)
(* Order ids are handed out by a counter, so that a smaller id is an       *)
(* earlier submission.  The reading of Utc::now() during the k-th          *)
(* submission is k; a cancellation reads the clock of the latest           *)
(* submission (the wall clock need not advance between two calls).         *)
(***************************************************************************)
EXTENDS Integers, Sequences, FiniteSets, TLC

VARIABLES bids, asks, orders, recent_trades, next_id, last,
          total_added, total_traded, total_cancelled, all_trades,
          ord, ord_last, qty, qty_last

\* The book with its bookkeeping, and the free-standing Order a caller holds.
book_vars == <<bids, asks, orders, recent_trades, next_id, last,
               total_added, total_traded, total_cancelled, all_trades>>
order_vars == <<ord, ord_last>>
\* The two Quantity values a caller computes with.
quantity_vars == <<qty, qty_last>>

vars == <<bids, asks, orders, recent_trades, next_id, last,
          total_added, total_traded, total_cancelled, all_trades,
          ord, ord_last, qty, qty_last>>

(***************************************************************************)
(* Bounds of the model.                                                    *)
(***************************************************************************)
MaxOrders == 3
MaxPrice == 2
MaxQty == 2

\* Orders submitted in the specification where the caller prepares them.
MaxPrepared == 2

\* LimitOrderBook::new sets max_recent_trades to 1000; the model keeps the
\* same truncation rule with a window small enough to be exceeded.
MaxRecentTrades == 1
max_recent_trades == MaxRecentTrades

\* 2^64, the modulus of u64 arithmetic, in blocks of 2^62 units.
U64Modulus == 4

\* An unchecked u64 addition that leaves the range panics in a build with
\* overflow checks (debug) and wraps in a build without them (release).
Builds == {"debug", "release"}

Sides == {"Buy", "Sell"}
Prices == 1..MaxPrice
Quantities == 1..MaxQty

(***************************************************************************)
(* Option<T>: None is the empty sequence, Some(x) the one-element one.     *)
(***************************************************************************)
None == <<>>
Some(x) == <<x>>

(***************************************************************************)
(* quantity.rs                                                             *)
(***************************************************************************)
\* Variant: a quantity equal to what is available is refused.
can_be_satisfied_by_strict(q, available) == q < available

\* Variant: any quantity is accepted.
can_be_satisfied_by_any(q, available) == q >= 0

can_be_satisfied_by(q, available) == q <= available

min(a, b) == IF a <= b THEN a ELSE b

\* The result of a u64 operation whose exact value is given: the value
\* itself inside the range; outside it the panic of a build with overflow
\* checks, or the wrapped value of a build without them.
u64_result(exact, build) ==
    IF exact < U64Modulus THEN [panic |-> FALSE, ok |-> TRUE, err |-> "", value |-> exact]
    ELSE IF build = "debug" THEN [panic |-> TRUE]
    ELSE [panic |-> FALSE, ok |-> TRUE, err |-> "", value |-> exact % U64Modulus]

\* impl Add for Quantity: Self(self.0 + other.0)
quantity_add(a, b, build) == u64_result(a + b, build)

\* impl Mul<u64> for Quantity: Self(self.0 * scalar)
quantity_mul(a, scalar, build) == u64_result(a * scalar, build)

\* impl Sub for Quantity
quantity_sub(a, b) ==
    IF a < b
    THEN [panic |-> FALSE, ok |-> FALSE, err |-> "InsufficientQuantity",
          requested |-> b, available |-> a]
    ELSE IF a - b = 0
    THEN [panic |-> FALSE, ok |-> FALSE, err |-> "InvalidQuantity"]
    ELSE [panic |-> FALSE, ok |-> TRUE, err |-> "", value |-> a - b]

(***************************************************************************)
(* order.rs                                                                *)
(***************************************************************************)
Order_new(id, side, price, quantity, now) ==
    [id |-> id, side |-> side, price |-> price,
     original_quantity |-> quantity, remaining_quantity |-> quantity,
     status |-> "Active", created_at |-> now, updated_at |-> now]

is_active(o) == o.status \in {"Active", "PartiallyFilled"}

is_filled(o) == o.status = "Filled"

\* Order::fill: Err(InsufficientQuantity) leaves the order untouched.
fill_status(new_remaining) ==
    IF new_remaining = 0 THEN "Filled" ELSE "PartiallyFilled"

\* Variant: a quantity above the remainder takes what is left.
fill_clamped(o, quantity, now) ==
    LET new_remaining == IF quantity <= o.remaining_quantity
                         THEN o.remaining_quantity - quantity ELSE 0
    IN [ok |-> TRUE, err |-> "",
        order |-> [o EXCEPT !.remaining_quantity = new_remaining,
                            !.updated_at = now,
                            !.status = fill_status(new_remaining)]]

fill(o, quantity, now) ==
    IF ~can_be_satisfied_by(quantity, o.remaining_quantity)
    THEN [ok |-> FALSE, err |-> "InsufficientQuantity",
          requested |-> quantity, available |-> o.remaining_quantity,
          order |-> o]
    ELSE LET new_remaining == o.remaining_quantity - quantity
         IN [ok |-> TRUE, err |-> "",
             order |-> [o EXCEPT !.remaining_quantity = new_remaining,
                                 !.updated_at = now,
                                 !.status = fill_status(new_remaining)]]

\* Variant: the status is left as it was.
cancel_keep_status(o, now) == [o EXCEPT !.updated_at = now]

cancel(o, now) == [o EXCEPT !.status = "Cancelled", !.updated_at = now]

\* Variant: the price test of the Buy arm is used for both sides.
can_match_buy_arm(self, other) ==
    IF self.side = other.side THEN FALSE
    ELSE IF ~(self.status \in {"Active", "PartiallyFilled"})
            \/ ~(other.status \in {"Active", "PartiallyFilled"}) THEN FALSE
    ELSE self.price >= other.price

\* Order::can_match
can_match(self, other) ==
    IF self.side = other.side THEN FALSE
    ELSE IF ~(self.status \in {"Active", "PartiallyFilled"})
            \/ ~(other.status \in {"Active", "PartiallyFilled"}) THEN FALSE
    ELSE IF self.side = "Buy" THEN self.price >= other.price
    ELSE self.price <= other.price

\* Order::filled_quantity: the subtraction is on u64 values.
filled_quantity(o) == (o.original_quantity - o.remaining_quantity) % U64Modulus

\* std::cmp::Ordering of two integers
int_cmp(x, y) == IF x < y THEN "Less" ELSE IF x = y THEN "Equal" ELSE "Greater"

\* Ordering::reverse
reverse(ordering) ==
    IF ordering = "Less" THEN "Greater"
    ELSE IF ordering = "Greater" THEN "Less" ELSE "Equal"

\* impl Ord for Order: the side of self alone picks the price comparison.
price_cmp(self, other) ==
    IF self.side = "Buy" THEN int_cmp(other.price, self.price)
    ELSE int_cmp(self.price, other.price)

Order_cmp(self, other) ==
    IF price_cmp(self, other) # "Equal" THEN price_cmp(self, other)
    ELSE int_cmp(self.created_at, other.created_at)

(***************************************************************************)
(* order_book.rs: helpers on the ladders (BTreeMap as a function whose     *)
(* domain is the set of keys present).                                     *)
(***************************************************************************)
MaxOf(S) == CHOOSE x \in S : \A y \in S : y <= x
MinOf(S) == CHOOSE x \in S : \A y \in S : x <= y

MapRemove(m, k) == [x \in (DOMAIN m) \ {k} |-> m[x]]
MapInsert(m, k, v) == [x \in (DOMAIN m) \cup {k} |-> IF x = k THEN v ELSE m[x]]

\* Variant: Vec::swap_remove, the last element takes the freed place.
SeqSwapRemoveAt(s, pos) == [i \in 1..(Len(s) - 1) |-> IF i = pos THEN s[Len(s)] ELSE s[i]]

SeqRemoveAt(s, pos) == [i \in 1..(Len(s) - 1) |-> IF i < pos THEN s[i] ELSE s[i + 1]]

\* Vec::retain(|o| o.id != order_id)
retain_not_id(s, order_id) == SelectSeq(s, LAMBDA o : o.id # order_id)

\* iter().position(|o| o.id == order_id): 0 stands for None
position(s, order_id) ==
    IF \E i \in 1..Len(s) : s[i].id = order_id
    THEN MinOf({i \in 1..Len(s) : s[i].id = order_id})
    ELSE 0

\* Variant: keys().next() where the code has keys().next_back().
best_bid_of_first_key(b) == IF DOMAIN b = {} THEN None ELSE Some(MinOf(DOMAIN b))

best_bid_of(b) == IF DOMAIN b = {} THEN None ELSE Some(MaxOf(DOMAIN b))
best_ask_of(a) == IF DOMAIN a = {} THEN None ELSE Some(MinOf(DOMAIN a))

best_bid == best_bid_of(bids)
best_ask == best_ask_of(asks)

spread_of(b, a) ==
    IF best_bid_of(b) # None /\ best_ask_of(a) # None
    THEN Some(best_ask_of(a)[1] - best_bid_of(b)[1])
    ELSE None

spread == spread_of(bids, asks)

order_count == Cardinality(DOMAIN orders)

\* match side { Buy => self.bids, Sell => self.asks }
ladder_of(side, b, a) == IF side = "Buy" THEN b ELSE a

get_order_in(b, a, idx, order_id) ==
    IF order_id \notin DOMAIN idx THEN None
    ELSE LET side == idx[order_id][1]
             price == idx[order_id][2]
             ladder == IF side = "Buy" THEN b ELSE a
         IN IF price \notin DOMAIN ladder THEN None
            ELSE LET pos == position(ladder[price], order_id)
                 IN IF pos = 0 THEN None ELSE Some(ladder[price][pos])

get_order(order_id) == get_order_in(bids, asks, orders, order_id)

(***************************************************************************)
(* market_depth, best_bid_quantity, best_ask_quantity                      *)
(***************************************************************************)
\* orders.iter().filter(|order| order.is_active())
\*     .map(|order| order.remaining_quantity.value()).sum::<u64>()
\* as the sum over the naturals; the u64 result is taken by sum_u64.
RECURSIVE sum_active(_)
sum_active(level) ==
    IF level = <<>> THEN 0
    ELSE (IF is_active(Head(level)) THEN Head(level).remaining_quantity ELSE 0)
         + sum_active(Tail(level))

sum_overflows(level) == sum_active(level) >= U64Modulus

sum_u64(level) == sum_active(level) % U64Modulus

\* orders.iter().filter(|order| order.is_active()).count()
count_active(level) == Len(SelectSeq(level, is_active))

\* BTreeMap::iter() walks the keys in ascending order, .rev() in descending.
RECURSIVE keys_ascending(_)
keys_ascending(S) ==
    IF S = {} THEN <<>> ELSE <<MinOf(S)>> \o keys_ascending(S \ {MinOf(S)})

RECURSIVE keys_descending(_)
keys_descending(S) ==
    IF S = {} THEN <<>> ELSE <<MaxOf(S)>> \o keys_descending(S \ {MaxOf(S)})

take(s, n) == SubSeq(s, 1, min(n, Len(s)))

market_level(price, level) ==
    [price |-> price, quantity |-> sum_u64(level), order_count |-> count_active(level)]

\* .map(..).filter(|level| level.quantity.value() > 0).collect()
depth_levels(ladder, keys) ==
    SelectSeq([i \in 1..Len(keys) |-> market_level(keys[i], ladder[keys[i]])],
              LAMBDA level : level.quantity > 0)

depth_overflows(ladder, keys) ==
    \E i \in 1..Len(keys) : sum_overflows(ladder[keys[i]])

Panic == [panic |-> TRUE]

depth_bids(b, levels) == take(keys_descending(DOMAIN b), levels)

depth_asks(a, levels) == take(keys_ascending(DOMAIN a), levels)

market_depth_in(b, a, levels, build) ==
    IF build = "debug" /\ (\/ depth_overflows(b, depth_bids(b, levels))
                           \/ depth_overflows(a, depth_asks(a, levels)))
    THEN Panic
    ELSE [panic |-> FALSE,
          bids |-> depth_levels(b, depth_bids(b, levels)),
          asks |-> depth_levels(a, depth_asks(a, levels)),
          spread |-> spread_of(b, a)]

market_depth(levels, build) == market_depth_in(bids, asks, levels, build)

\* Option<Quantity> of the best level of a ladder, or the panic of the sum.
best_quantity_at(ladder, best, build) ==
    IF best = None THEN [panic |-> FALSE, value |-> None]
    ELSE IF build = "debug" /\ sum_overflows(ladder[best[1]]) THEN Panic
    ELSE [panic |-> FALSE, value |-> Some(sum_u64(ladder[best[1]]))]

best_bid_quantity(build) == best_quantity_at(bids, best_bid, build)

best_ask_quantity(build) == best_quantity_at(asks, best_ask, build)

(***************************************************************************)
(* insert_order                                                            *)
(***************************************************************************)
\* Variant: the order is put at the front of its level.
level_push_front(ladder, price, order) ==
    IF price \in DOMAIN ladder
    THEN [ladder EXCEPT ![price] = <<order>> \o @]
    ELSE MapInsert(ladder, price, <<order>>)

\* Variant: insert(price, vec![order]), whatever the level held is dropped.
level_push_replace(ladder, price, order) == MapInsert(ladder, price, <<order>>)

level_push(ladder, price, order) ==
    IF price \in DOMAIN ladder
    THEN [ladder EXCEPT ![price] = Append(@, order)]
    ELSE MapInsert(ladder, price, <<order>>)

\* Variant: the order is put into its ladder but not into the id index.
insert_order_skip_index(st, order) ==
    [st EXCEPT !.bids = IF order.side = "Buy" THEN level_push(@, order.price, order) ELSE @,
               !.asks = IF order.side = "Sell" THEN level_push(@, order.price, order) ELSE @]

insert_order(st, order) ==
    [st EXCEPT !.orders = MapInsert(st.orders, order.id, <<order.side, order.price>>),
               !.bids = IF order.side = "Buy" THEN level_push(@, order.price, order) ELSE @,
               !.asks = IF order.side = "Sell" THEN level_push(@, order.price, order) ELSE @]

(***************************************************************************)
(* remove_filled_order                                                     *)
(***************************************************************************)
\* Variant: an emptied level keeps its key.
prune_level_never(ladder, price) == ladder

prune_level(ladder, price) ==
    IF ladder[price] = <<>> THEN MapRemove(ladder, price) ELSE ladder

remove_from_ladder(ladder, order_id, price) ==
    prune_level([ladder EXCEPT ![price] = retain_not_id(@, order_id)], price)

\* Variant: the filled order stays in the id index.
remove_filled_order_keep_index(st, order_id, side, price) ==
    LET ladder == IF side = "Buy" THEN st.bids ELSE st.asks
    IN IF price \notin DOMAIN ladder
       THEN [st EXCEPT !.err = "InvariantViolation"]
       ELSE [st EXCEPT !.bids = IF side = "Buy" THEN remove_from_ladder(@, order_id, price) ELSE @,
                       !.asks = IF side = "Sell" THEN remove_from_ladder(@, order_id, price) ELSE @]

\* Variant: the level is looked up in the ladder of the other side.
remove_filled_order_other_ladder(st, order_id, side, price) ==
    LET idx == MapRemove(st.orders, order_id)
        ladder == IF side = "Buy" THEN st.asks ELSE st.bids
    IN IF price \notin DOMAIN ladder
       THEN [st EXCEPT !.orders = idx, !.err = "InvariantViolation"]
       ELSE [st EXCEPT !.orders = idx,
                       !.bids = IF side = "Sell" THEN remove_from_ladder(@, order_id, price) ELSE @,
                       !.asks = IF side = "Buy" THEN remove_from_ladder(@, order_id, price) ELSE @]

remove_filled_order(st, order_id, side, price) ==
    LET idx == MapRemove(st.orders, order_id)
        ladder == IF side = "Buy" THEN st.bids ELSE st.asks
    IN IF price \notin DOMAIN ladder
       THEN [st EXCEPT !.orders = idx, !.err = "InvariantViolation"]
       ELSE [st EXCEPT !.orders = idx,
                       !.bids = IF side = "Buy" THEN remove_from_ladder(@, order_id, price) ELSE @,
                       !.asks = IF side = "Sell" THEN remove_from_ladder(@, order_id, price) ELSE @]

(***************************************************************************)
(* match_order: the loop, then the update of recent_trades.                *)
(* st = [bids, asks, orders, recent_trades, incoming, trades, err]         *)
(***************************************************************************)
\* Variant: the Buy comparison is used for both sides.
can_match_at_price_same_cmp(side, price, best_price) == price >= best_price

\* Variant: a price equal to the best opposing price does not cross.
can_match_at_price_strict(side, price, best_price) ==
    IF side = "Buy" THEN price > best_price ELSE price < best_price

\* Variant: a price one tick short of the best opposing price crosses too.
can_match_at_price_one_tick(side, price, best_price) ==
    IF side = "Buy" THEN price + 1 >= best_price ELSE price - 1 <= best_price

can_match_at_price(side, price, best_price) ==
    IF side = "Buy" THEN price >= best_price ELSE price <= best_price

\* Variant: the far end of the opposing ladder is taken.
worst_opposing_price(st) ==
    IF st.incoming.side = "Buy"
    THEN (IF DOMAIN st.asks = {} THEN None ELSE Some(MaxOf(DOMAIN st.asks)))
    ELSE (IF DOMAIN st.bids = {} THEN None ELSE Some(MinOf(DOMAIN st.bids)))

best_opposing_price(st) ==
    IF st.incoming.side = "Buy" THEN best_ask_of(st.asks) ELSE best_bid_of(st.bids)

\* Variant: the trade executes at the incoming order's price.
trade_price_of_incoming(incoming_order, opposing_order) == incoming_order.price

trade_price_of(incoming_order, opposing_order) == opposing_order.price

\* Variant: the trade records the incoming order's remaining quantity.
make_trade_incoming_qty(incoming_order, opposing_order, trade_quantity, now) ==
    [buy_order_id |-> IF incoming_order.side = "Buy" THEN incoming_order.id ELSE opposing_order.id,
     sell_order_id |-> IF incoming_order.side = "Sell" THEN incoming_order.id ELSE opposing_order.id,
     price |-> opposing_order.price,
     quantity |-> incoming_order.remaining_quantity,
     timestamp |-> now]

make_trade(incoming_order, opposing_order, trade_quantity, now) ==
    [buy_order_id |-> IF incoming_order.side = "Buy" THEN incoming_order.id ELSE opposing_order.id,
     sell_order_id |-> IF incoming_order.side = "Sell" THEN incoming_order.id ELSE opposing_order.id,
     price |-> trade_price_of(incoming_order, opposing_order),
     quantity |-> trade_quantity,
     timestamp |-> now]

\* Variant: the filled head is put back at the end of its level.
set_head_requeue(ladder, price, order) ==
    [ladder EXCEPT ![price] = Tail(@) \o <<order>>]

set_head(ladder, price, order) == [ladder EXCEPT ![price] = [@ EXCEPT ![1] = order]]

opposing_ladder(st) == IF st.incoming.side = "Buy" THEN st.asks ELSE st.bids

RECURSIVE match_loop(_, _)

\* "Stop if incoming order is fully filled", else the next iteration
continue_or_stop(st, now) ==
    IF st.err # "" THEN st
    ELSE IF is_filled(st.incoming) THEN st
    ELSE match_loop(st, now)

\* Variant: a filled head is left where it is.
remove_if_filled_never(st, opposing_order, best_price) == st

\* Variant: the head is removed after any execution.
remove_if_filled_always(st, opposing_order, best_price) ==
    remove_filled_order(st, opposing_order.id, opposing_order.side, best_price)

\* "Remove filled order if completely filled"
remove_if_filled(st, opposing_order, best_price) ==
    IF is_filled(opposing_order)
    THEN remove_filled_order(st, opposing_order.id, opposing_order.side, best_price)
    ELSE st

\* Both fills succeeded: the head of the level was filled in place
\* (first_mut) and the trade is pushed.
record_fill(st, best_price, trade, incoming_order, opposing_order) ==
    [st EXCEPT !.incoming = incoming_order,
               !.trades = Append(@, trade),
               !.bids = IF incoming_order.side = "Sell"
                        THEN set_head(@, best_price, opposing_order) ELSE @,
               !.asks = IF incoming_order.side = "Buy"
                        THEN set_head(@, best_price, opposing_order) ELSE @]

\* incoming_order.fill(trade_quantity)?; opposing_order.fill(trade_quantity)?;
after_fills(st, now, best_price, trade, f1, f2) ==
    IF ~f1.ok THEN [st EXCEPT !.err = f1.err]
    ELSE IF ~f2.ok THEN [st EXCEPT !.incoming = f1.order, !.err = f2.err]
    ELSE continue_or_stop(
             remove_if_filled(record_fill(st, best_price, trade, f1.order, f2.order),
                              f2.order, best_price),
             now)

\* "Execute the trade"
execute_trade(st, now, best_price, opposing_order, trade_quantity) ==
    after_fills(st, now, best_price,
                make_trade(st.incoming, opposing_order, trade_quantity, now),
                fill(st.incoming, trade_quantity, now),
                fill(opposing_order, trade_quantity, now))

\* Variant: one block is traded per execution.
trade_quantity_single(incoming_order, opposing_order) == 1

\* Variant: an execution stops one block short of the smaller remainder.
trade_quantity_short(incoming_order, opposing_order) ==
    IF min(incoming_order.remaining_quantity, opposing_order.remaining_quantity) > 1
    THEN min(incoming_order.remaining_quantity, opposing_order.remaining_quantity) - 1
    ELSE min(incoming_order.remaining_quantity, opposing_order.remaining_quantity)

\* incoming_order.remaining_quantity.min(opposing_order.remaining_quantity)
trade_quantity_of(incoming_order, opposing_order) ==
    min(incoming_order.remaining_quantity, opposing_order.remaining_quantity)

\* "Get the first order at the best price level (FIFO within price level)"
match_head(st, now, best_price, level) ==
    IF level = <<>> THEN st
    ELSE IF ~is_active(Head(level)) THEN st
    ELSE execute_trade(st, now, best_price, Head(level),
                       trade_quantity_of(st.incoming, Head(level)))

match_at(st, now, bop) ==
    IF bop = None THEN st
    ELSE IF ~can_match_at_price(st.incoming.side, st.incoming.price, bop[1]) THEN st
    ELSE match_head(st, now, bop[1], opposing_ladder(st)[bop[1]])

match_loop(st, now) == match_at(st, now, best_opposing_price(st))

\* Variant: the drain removes the newest entries instead of the oldest.
push_recent_keep_oldest(rt, trades) ==
    LET all == rt \o trades
    IN IF Len(all) > max_recent_trades
       THEN SubSeq(all, 1, max_recent_trades)
       ELSE all

\* recent_trades.extend(..) followed by the drain of the oldest entries
push_recent(rt, trades) ==
    LET all == rt \o trades
    IN IF Len(all) > max_recent_trades
       THEN SubSeq(all, Len(all) - max_recent_trades + 1, Len(all))
       ELSE all

finish_match(r) ==
    IF r.err # "" THEN r
    ELSE [r EXCEPT !.recent_trades = push_recent(@, r.trades)]

match_order(st, now) == finish_match(match_loop(st, now))

(***************************************************************************)
(* add_order                                                               *)
(***************************************************************************)
\* Variant: the incoming order is booked whatever its status and remainder.
should_rest_always(order) == order.remaining_quantity >= 0

should_rest(order) == order.remaining_quantity > 0 /\ is_active(order)

rest_or_drop(m) ==
    IF m.err # "" THEN m
    ELSE IF should_rest(m.incoming) THEN insert_order(m, m.incoming)
    ELSE m

add_order(b, a, idx, rt, order, now) ==
    rest_or_drop(match_order([bids |-> b, asks |-> a, orders |-> idx,
                              recent_trades |-> rt, incoming |-> order,
                              trades |-> <<>>, err |-> ""], now))

(***************************************************************************)
(* cancel_order                                                            *)
(* result = [bids, asks, orders, err, returned]                            *)
(***************************************************************************)
\* self.orders.remove(&order_id).ok_or_else(|| OrderNotFound(..))
\* Variant: the index entry is read (get) but not removed.
cancel_lookup_keep(idx, order_id) ==
    IF order_id \in DOMAIN idx
    THEN [err |-> "", entry |-> Some(idx[order_id]), orders |-> idx]
    ELSE [err |-> "OrderNotFound", entry |-> None, orders |-> idx]

\* Variant: a missing id is reported with the error of the two later lookups.
cancel_lookup_wrong_error(idx, order_id) ==
    IF order_id \in DOMAIN idx
    THEN [err |-> "", entry |-> Some(idx[order_id]), orders |-> MapRemove(idx, order_id)]
    ELSE [err |-> "InvariantViolation", entry |-> None, orders |-> idx]

cancel_lookup(idx, order_id) ==
    IF order_id \in DOMAIN idx
    THEN [err |-> "", entry |-> Some(idx[order_id]), orders |-> MapRemove(idx, order_id)]
    ELSE [err |-> "OrderNotFound", entry |-> None, orders |-> idx]

cancel_result(b, a, idx, err, returned) ==
    [bids |-> b, asks |-> a, orders |-> idx, err |-> err, returned |-> returned]

\* orders.remove(pos); order.cancel(); "Remove empty price level"
cancel_at(b, a, idx, side, price, pos, ladder, now) ==
    cancel_result(
        IF side = "Buy"
        THEN prune_level([ladder EXCEPT ![price] = SeqRemoveAt(@, pos)], price) ELSE b,
        IF side = "Sell"
        THEN prune_level([ladder EXCEPT ![price] = SeqRemoveAt(@, pos)], price) ELSE a,
        idx, "", Some(cancel(ladder[price][pos], now)))

cancel_in_level(b, a, idx, order_id, side, price, ladder, now) ==
    IF price \notin DOMAIN ladder
    THEN cancel_result(b, a, idx, "InvariantViolation", None)
    ELSE IF position(ladder[price], order_id) = 0
    THEN cancel_result(b, a, idx, "InvariantViolation", None)
    ELSE cancel_at(b, a, idx, side, price, position(ladder[price], order_id), ladder, now)

cancel_found(b, a, found, order_id, now) ==
    IF found.err # ""
    THEN cancel_result(b, a, found.orders, found.err, None)
    ELSE cancel_in_level(b, a, found.orders, order_id, found.entry[1][1], found.entry[1][2],
                         ladder_of(found.entry[1][1], b, a), now)

cancel_order(b, a, idx, order_id, now) ==
    cancel_found(b, a, cancel_lookup(idx, order_id), order_id, now)

(***************************************************************************)
(* Snapshots: LimitOrderBook, Order, Trade and Price derive Serialize and  *)
(* Deserialize, and a snapshot is the JSON text of serde_json.  A Price    *)
(* (a Decimal of scale 2) is written as the text "<units>.<cents>", here   *)
(* the pair of the two numbers; a BTreeMap is written as the list of its   *)
(* entries in key order and read back by inserting them one by one (a      *)
(* later entry replaces an earlier one with an equal key); a HashMap is    *)
(* written in an unspecified order, here the set of its entries.           *)
(***************************************************************************)
\* Variant: the text keeps the units and drops the cents.
decimal_to_string_units_only(price) == <<price \div 100, 0>>

decimal_to_string(price) == <<price \div 100, price % 100>>

decimal_from_string(text) == text[1] * 100 + text[2]

serialize_order(o) == [o EXCEPT !.price = decimal_to_string(@)]
deserialize_order(j) == [j EXCEPT !.price = decimal_from_string(@)]

serialize_level(level) == [i \in 1..Len(level) |-> serialize_order(level[i])]
deserialize_level(list) == [i \in 1..Len(list) |-> deserialize_order(list[i])]

ladder_entries(ladder, keys) ==
    [i \in 1..Len(keys) |->
        <<decimal_to_string(keys[i]), serialize_level(ladder[keys[i]])>>]

serialize_ladder(ladder) == ladder_entries(ladder, keys_ascending(DOMAIN ladder))

\* The entry that is inserted last under a key is the one that stays.
last_entry(entries, price) ==
    entries[MaxOf({i \in 1..Len(entries) : decimal_from_string(entries[i][1]) = price})]

deserialize_ladder(entries) ==
    [price \in {decimal_from_string(entries[i][1]) : i \in 1..Len(entries)} |->
        deserialize_level(last_entry(entries, price)[2])]

serialize_index(idx) ==
    {<<id, <<idx[id][1], decimal_to_string(idx[id][2])>>>> : id \in DOMAIN idx}

index_entry(entries, id) == CHOOSE e \in entries : e[1] = id

deserialize_index(entries) ==
    [id \in {e[1] : e \in entries} |->
        <<index_entry(entries, id)[2][1],
          decimal_from_string(index_entry(entries, id)[2][2])>>]

serialize_trade(t) == [t EXCEPT !.price = decimal_to_string(@)]
deserialize_trade(j) == [j EXCEPT !.price = decimal_from_string(@)]

\* serde_json::to_string(&book)
serialize(b, a, idx, rt) ==
    [bids |-> serialize_ladder(b),
     asks |-> serialize_ladder(a),
     orders |-> serialize_index(idx),
     recent_trades |-> [i \in 1..Len(rt) |-> serialize_trade(rt[i])],
     max_recent_trades |-> max_recent_trades]

\* serde_json::from_str(&json)
deserialize(json) ==
    [bids |-> deserialize_ladder(json.bids),
     asks |-> deserialize_ladder(json.asks),
     orders |-> deserialize_index(json.orders),
     recent_trades |-> [i \in 1..Len(json.recent_trades) |->
                           deserialize_trade(json.recent_trades[i])],
     max_recent_trades |-> json.max_recent_trades]

(***************************************************************************)
(* The state machine.                                                      *)
(***************************************************************************)
EmptyMap == [x \in {} |-> 0]

\* Sum of the quantities of a list of trades.
RECURSIVE SumQty(_)
SumQty(s) == IF s = <<>> THEN 0 ELSE Head(s).quantity + SumQty(Tail(s))

NoCall == [op |-> "none", id |-> 0, order |-> None, ok |-> TRUE, err |-> "",
           trades |-> <<>>, returned |-> None]

Init ==
    /\ bids = EmptyMap
    /\ asks = EmptyMap
    /\ orders = EmptyMap
    /\ recent_trades = <<>>
    /\ next_id = 1
    /\ last = NoCall
    /\ total_added = 0
    /\ total_traded = 0
    /\ total_cancelled = 0
    /\ all_trades = <<>>
    /\ ord = None
    /\ ord_last = NoCall
    /\ qty = None
    /\ qty_last = NoCall

\* The call record kept for the properties.
call_record(op, id, order, err, trades, returned) ==
    [op |-> op, id |-> id, order |-> order, ok |-> (err = ""), err |-> err,
     trades |-> trades, returned |-> returned]

ApplyAddBook(order, r) ==
    /\ bids' = r.bids
    /\ asks' = r.asks
    /\ orders' = r.orders
    /\ recent_trades' = r.recent_trades
    /\ next_id' = next_id + 1
    /\ last' = call_record("add_order", order.id, Some(order), r.err,
                           IF r.err = "" THEN r.trades ELSE <<>>, None)
    /\ total_added' = total_added + order.original_quantity
    /\ total_traded' = total_traded + (IF r.err = "" THEN SumQty(r.trades) ELSE 0)
    /\ all_trades' = all_trades \o (IF r.err = "" THEN r.trades ELSE <<>>)
    /\ UNCHANGED total_cancelled

ApplyAdd(order, r) ==
    /\ ApplyAddBook(order, r)
    /\ UNCHANGED <<ord, ord_last, qty, qty_last>>

\* A caller builds a fresh order (Order::new with a new OrderId) and submits it.
SubmitFresh(order, now) ==
    ApplyAdd(order, add_order(bids, asks, orders, recent_trades, order, now))

AddOrder ==
    /\ next_id <= MaxOrders
    /\ \E side \in Sides, price \in Prices, quantity \in Quantities :
         SubmitFresh(Order_new(next_id, side, price, quantity, next_id), next_id)

ApplyCancel(order_id, r) ==
    /\ bids' = r.bids
    /\ asks' = r.asks
    /\ orders' = r.orders
    /\ last' = call_record("cancel_order", order_id, None, r.err, <<>>, r.returned)
    /\ total_cancelled' = total_cancelled +
                          (IF r.returned # None
                           THEN r.returned[1].remaining_quantity ELSE 0)
    /\ UNCHANGED <<recent_trades, next_id, total_added, total_traded,
                   all_trades, ord, ord_last, qty, qty_last>>

\* cancel_order with any id handed out so far, resting or not.
CancelOrder ==
    \E order_id \in 1..(next_id - 1) :
        ApplyCancel(order_id, cancel_order(bids, asks, orders, order_id, next_id - 1))

Next == AddOrder \/ CancelOrder

Spec == Init /\ [][Next]_vars

(***************************************************************************)
(* The life of one Order in the hands of a caller: Order::new, then any    *)
(* sequence of the public methods fill and cancel.  The quantity passed to *)
(* fill is any Quantity a caller can hold: zero is what filled_quantity()  *)
(* of a fresh order returns, and a quantity above the remainder is the     *)
(* refused case.  Every call reads the clock at next_id, which is 1 as     *)
(* long as nothing has been submitted.                                     *)
(***************************************************************************)
FillArgs == 0..(MaxQty + 1)

InitOrder ==
    /\ bids = EmptyMap
    /\ asks = EmptyMap
    /\ orders = EmptyMap
    /\ recent_trades = <<>>
    /\ next_id = 1
    /\ last = NoCall
    /\ total_added = 0
    /\ total_traded = 0
    /\ total_cancelled = 0
    /\ all_trades = <<>>
    /\ \E side \in Sides, price \in Prices, quantity \in Quantities :
          ord = Some(Order_new(1, side, price, quantity, 0))
    /\ ord_last = NoCall
    /\ qty = None
    /\ qty_last = NoCall

\* The call record kept for the properties: the call, the order before it
\* and what the call returned (Ok, or the error with its fields).
order_call(op, quantity, r, before) ==
    [op |-> op, quantity |-> quantity, ok |-> r.ok, err |-> r.err,
     result |-> [x \in (DOMAIN r) \ {"order"} |-> r[x]], before |-> before]

ApplyFill(quantity, r) ==
    /\ ord' = Some(r.order)
    /\ ord_last' = order_call("fill", quantity, r, ord[1])
    /\ UNCHANGED book_vars
    /\ UNCHANGED quantity_vars

OrderFill ==
    /\ ord # None
    /\ \E quantity \in FillArgs :
          ApplyFill(quantity, fill(ord[1], quantity, next_id))

OrderCancel ==
    /\ ord # None
    /\ ord' = Some(cancel(ord[1], next_id))
    /\ ord_last' = order_call("cancel", 0, [ok |-> TRUE, err |-> ""], ord[1])
    /\ UNCHANGED book_vars
    /\ UNCHANGED quantity_vars

NextOrder == OrderFill \/ OrderCancel

SpecOrder == InitOrder /\ [][NextOrder]_vars

(***************************************************************************)
(* The book fed with orders the caller has prepared: an Order is built     *)
(* with Order::new, goes through any sequence of fill and cancel in the    *)
(* caller's hands (all its fields and both methods are public), and is     *)
(* then handed to add_order.                                               *)
(***************************************************************************)
CreateOrder ==
    /\ ord = None
    /\ next_id <= MaxPrepared
    /\ \E side \in Sides, price \in Prices, quantity \in Quantities :
          ord' = Some(Order_new(next_id, side, price, quantity, next_id))
    /\ ord_last' = NoCall
    /\ UNCHANGED book_vars
    /\ UNCHANGED quantity_vars

SubmitOrder ==
    /\ ord # None
    /\ ApplyAddBook(ord[1], add_order(bids, asks, orders, recent_trades,
                                      ord[1], next_id))
    /\ ord' = None
    /\ ord_last' = NoCall
    /\ UNCHANGED quantity_vars

NextPrepared ==
    CreateOrder \/ OrderFill \/ OrderCancel \/ SubmitOrder \/ CancelOrder

SpecPrepared == Init /\ [][NextPrepared]_vars

(***************************************************************************)
(* Quantity arithmetic in the hands of a caller, who holds two Quantity    *)
(* values and adds, subtracts and multiplies.  Every u64 value (in blocks) *)
(* can be held: zero is what filled_quantity() of a fresh order returns.   *)
(* A result replaces the first value; after an error or a panic the two    *)
(* values are as they were.                                                *)
(***************************************************************************)
QuantityValues == 0..(U64Modulus - 1)
Scalars == 0..MaxQty

InitQuantity ==
    /\ bids = EmptyMap
    /\ asks = EmptyMap
    /\ orders = EmptyMap
    /\ recent_trades = <<>>
    /\ next_id = 1
    /\ last = NoCall
    /\ total_added = 0
    /\ total_traded = 0
    /\ total_cancelled = 0
    /\ all_trades = <<>>
    /\ ord = None
    /\ ord_last = NoCall
    /\ \E a \in QuantityValues, b \in QuantityValues : qty = <<a, b>>
    /\ qty_last = NoCall

ApplyQuantity(op, operand, exact, build, r) ==
    /\ qty' = IF ~r.panic /\ r.ok THEN <<r.value, qty[2]>> ELSE qty
    /\ qty_last' = [op |-> op, left |-> qty[1], operand |-> operand,
                    exact |-> exact, build |-> build, result |-> r]
    /\ UNCHANGED book_vars
    /\ UNCHANGED order_vars

QuantityAdd ==
    \E build \in Builds :
        ApplyQuantity("add", qty[2], qty[1] + qty[2], build,
                      quantity_add(qty[1], qty[2], build))

\* The subtraction is the same in every build.
QuantitySub ==
    ApplyQuantity("sub", qty[2], qty[1] - qty[2], "any",
                  quantity_sub(qty[1], qty[2]))

QuantityMul ==
    \E scalar \in Scalars, build \in Builds :
        ApplyQuantity("mul", scalar, qty[1] * scalar, build,
                      quantity_mul(qty[1], scalar, build))

NextQuantity == QuantityAdd \/ QuantitySub \/ QuantityMul

SpecQuantity == InitQuantity /\ [][NextQuantity]_vars

(***************************************************************************)
(* A book loaded from a snapshot.  LimitOrderBook and Order derive         *)
(* Deserialize, so serde_json::from_str accepts any well-formed document:  *)
(* the resting order it holds has whatever status and quantities the       *)
(* document says.  The documents drawn here hold one resting order.        *)
(***************************************************************************)
OrderStatuses == {"Active", "PartiallyFilled", "Filled", "Cancelled"}

SnapshotOrders ==
    {[id |-> 1, side |-> side, price |-> price,
      original_quantity |-> original, remaining_quantity |-> remaining,
      status |-> status, created_at |-> 1, updated_at |-> 1] :
        side \in Sides, price \in Prices, original \in Quantities,
        remaining \in 0..MaxQty, status \in OrderStatuses}

\* The document of a book whose only resting order is o.
snapshot_of(o) ==
    serialize(IF o.side = "Buy" THEN MapInsert(EmptyMap, o.price, <<o>>) ELSE EmptyMap,
              IF o.side = "Sell" THEN MapInsert(EmptyMap, o.price, <<o>>) ELSE EmptyMap,
              MapInsert(EmptyMap, o.id, <<o.side, o.price>>),
              <<>>)

LoadBook(book) ==
    /\ bids = book.bids
    /\ asks = book.asks
    /\ orders = book.orders
    /\ recent_trades = book.recent_trades

\* Counters and the call record start with the load.
InitLoaded ==
    /\ \E o \in SnapshotOrders :
          /\ o.remaining_quantity <= o.original_quantity
          /\ LoadBook(deserialize(snapshot_of(o)))
    /\ next_id = 2
    /\ last = NoCall
    /\ total_added = 0
    /\ total_traded = 0
    /\ total_cancelled = 0
    /\ all_trades = <<>>
    /\ ord = None
    /\ ord_last = NoCall
    /\ qty = None
    /\ qty_last = NoCall

NextLoaded == AddOrder \/ CancelOrder

SpecLoaded == InitLoaded /\ [][NextLoaded]_vars

(***************************************************************************)
(* Two orders compared: can_match and cmp are applied to a pair of orders  *)
(* that callers can hold, each built by Order::new and then left alone,    *)
(* filled in part, filled completely or cancelled.                         *)
(***************************************************************************)
Instants == 1..MaxPrepared

HeldAfter(o, now) ==
    {o, cancel(o, now)}
        \cup {fill(o, quantity, now).order : quantity \in 1..o.original_quantity}

HeldOrders(id) ==
    UNION {HeldAfter(Order_new(id, side, price, quantity, now), now) :
              side \in Sides, price \in Prices, quantity \in Quantities,
              now \in Instants}

InitCompare ==
    /\ bids = EmptyMap
    /\ asks = EmptyMap
    /\ orders = EmptyMap
    /\ recent_trades = <<>>
    /\ next_id = 1
    /\ last = NoCall
    /\ total_added = 0
    /\ total_traded = 0
    /\ total_cancelled = 0
    /\ all_trades = <<>>
    /\ \E a \in HeldOrders(1), b \in HeldOrders(2) : ord = <<a, b>>
    /\ ord_last = NoCall
    /\ qty = None
    /\ qty_last = NoCall

ApplyCompare(op, result) ==
    /\ ord_last' = [op |-> op, result |-> result]
    /\ UNCHANGED <<ord, qty, qty_last>>
    /\ UNCHANGED book_vars

\* a.can_match(&b)
OrderCanMatch == ApplyCompare("can_match", can_match(ord[1], ord[2]))

\* a.cmp(&b)
OrderCmp == ApplyCompare("cmp", Order_cmp(ord[1], ord[2]))

NextCompare == OrderCanMatch \/ OrderCmp

SpecCompare == InitCompare /\ [][NextCompare]_vars

TypeOK ==
    /\ DOMAIN bids \subseteq Prices
    /\ DOMAIN asks \subseteq Prices
    /\ DOMAIN orders \subseteq 1..MaxOrders
    /\ next_id \in 1..(MaxOrders + 1)
    /\ Len(recent_trades) <= max_recent_trades

(***************************************************************************)
(* Vocabulary of the properties.                                           *)
(***************************************************************************)
SeqToSet(s) == {s[i] : i \in 1..Len(s)}

\* All orders resting in a ladder / in the book.
LadderOrders(ladder) == UNION {SeqToSet(ladder[p]) : p \in DOMAIN ladder}
RestingOrders == LadderOrders(bids) \cup LadderOrders(asks)
RestingIds == {o.id : o \in RestingOrders}

\* Number of orders resting in a ladder, counted with multiplicity.
RECURSIVE CountLadder(_, _)
CountLadder(ladder, keys) ==
    IF keys = {} THEN 0
    ELSE LET p == CHOOSE x \in keys : TRUE
         IN Len(ladder[p]) + CountLadder(ladder, keys \ {p})
RestingCount == CountLadder(bids, DOMAIN bids) + CountLadder(asks, DOMAIN asks)

\* Sum of remaining_quantity over a level / a ladder.
RECURSIVE SumRemaining(_)
SumRemaining(s) ==
    IF s = <<>> THEN 0 ELSE Head(s).remaining_quantity + SumRemaining(Tail(s))
RECURSIVE SumLadder(_, _)
SumLadder(ladder, keys) ==
    IF keys = {} THEN 0
    ELSE LET p == CHOOSE x \in keys : TRUE
         IN SumRemaining(ladder[p]) + SumLadder(ladder, keys \ {p})
RestingRemaining == SumLadder(bids, DOMAIN bids) + SumLadder(asks, DOMAIN asks)

\* The resting (passive) order of a trade returned by add_order(incoming).
PassiveId(trade, incoming_id) ==
    IF trade.buy_order_id = incoming_id THEN trade.sell_order_id ELSE trade.buy_order_id

\* The kind of the step just taken, read from the record of the call.
AddStep == next_id' = next_id + 1 /\ last'.op = "add_order"
CancelStep == next_id' = next_id /\ last'.op = "cancel_order"

(***************************************************************************)
(* C1: no crossed market.  After any sequence of add_order and             *)
(* cancel_order calls with fresh orders, whenever best_bid and best_ask    *)
(* both exist, best_bid <= best_ask and spread() >= 0.                     *)
(***************************************************************************)
C1_NoCrossedMarket ==
    (best_bid # None /\ best_ask # None) =>
        /\ best_bid[1] <= best_ask[1]
        /\ spread # None /\ spread[1] >= 0

\* Both sides are populated right after an order traded and its rest was booked.
C1_Witness ==
    /\ best_bid # None /\ best_ask # None
    /\ last.op = "add_order" /\ last.trades # <<>>
    /\ last.id \in DOMAIN orders

(***************************************************************************)
(* C2: quantity conservation.  With A the sum of original_quantity of all  *)
(* submitted orders, T the sum of the quantities of all emitted trades and *)
(* R the remaining_quantity of all resting orders plus that of every order *)
(* returned by cancel_order: A = R + 2 * T.                                *)
(***************************************************************************)
C2_QuantityConservation ==
    total_added = (RestingRemaining + total_cancelled) + 2 * total_traded

C2_Witness ==
    /\ total_traded > 0
    /\ total_cancelled > 0
    /\ RestingRemaining > 0

(***************************************************************************)
(* C3: FIFO time priority.  If a and b rest at the same price on the same  *)
(* side and a was inserted before b, a trade is emitted against b only     *)
(* after a has been traded against and has left the book, within the same  *)
(* add_order call.  (Ids are handed out in submission order, so a was      *)
(* inserted before b iff a.id < b.id.)                                     *)
(***************************************************************************)
C3_FifoStep ==
    AddStep =>
      \A i \in 1..Len(last'.trades) :
        LET b == PassiveId(last'.trades[i], last'.id)
            ob == get_order(b)
        IN /\ ob # None
           /\ \A a \in RestingOrders :
                (a.side = ob[1].side /\ a.price = ob[1].price /\ a.id < b) =>
                    /\ a.id \notin DOMAIN orders'
                    /\ \E j \in 1..(i - 1) : PassiveId(last'.trades[j], last'.id) = a.id

\* C3: FIFO time priority holds of every add_order step.
C3_FifoTimePriority == [][C3_FifoStep]_vars

\* The earliest order of a level was traded while a later one still rests there.
C3_Witness ==
    /\ last.op = "add_order" /\ last.trades # <<>>
    /\ \E o \in RestingOrders :
         /\ o.side # last.order[1].side
         /\ o.price = last.trades[1].price
         /\ o.id > PassiveId(last.trades[1], last.id)
         /\ o.status = "Active"

(***************************************************************************)
(* C4: every trade emitted by add_order executes at the price of the       *)
(* resting order it was matched against, also when the incoming order's    *)
(* price differs.                                                          *)
(***************************************************************************)
C4_PassivePriceStep ==
    AddStep =>
      \A i \in 1..Len(last'.trades) :
        LET h == get_order(PassiveId(last'.trades[i], last'.id))
        IN h # None /\ last'.trades[i].price = h[1].price

\* C4: every add_order step trades at the resting order's price.
C4_TradeAtRestingPrice == [][C4_PassivePriceStep]_vars

C4_Witness ==
    /\ last.op = "add_order" /\ last.trades # <<>>
    /\ last.trades[1].price # last.order[1].price

(***************************************************************************)
(* C5: index bijection.  The id index holds exactly the ids of the orders  *)
(* resting in the two ladders, each id maps to the (side, price) of the    *)
(* level where exactly one order with that id rests, and order_count() is  *)
(* the number of resting orders.                                           *)
(***************************************************************************)
OccurrencesIn(ladder, id) ==
    {<<p, i>> \in (DOMAIN ladder) \X (1..MaxOrders) :
        i <= Len(ladder[p]) /\ ladder[p][i].id = id}

C5_IndexBijection ==
    /\ DOMAIN orders = RestingIds
    /\ \A id \in DOMAIN orders :
         LET side == orders[id][1]
             price == orders[id][2]
             own == IF side = "Buy" THEN bids ELSE asks
             other == IF side = "Buy" THEN asks ELSE bids
         IN /\ side \in Sides
            /\ price \in DOMAIN own
            /\ Cardinality(OccurrencesIn(own, id)) = 1
            /\ \A occ \in OccurrencesIn(own, id) :
                 occ[1] = price /\ own[price][occ[2]].side = side
                                /\ own[price][occ[2]].price = price
            /\ OccurrencesIn(other, id) = {}
    /\ order_count = RestingCount

\* Orders rest on both sides after one resting order was filled away and
\* another one was cancelled.
C5_Witness ==
    /\ order_count >= 1
    /\ total_traded > 0
    /\ last.op = "cancel_order" /\ last.ok

(***************************************************************************)
(* C6: every order resting in either ladder has status Active or           *)
(* PartiallyFilled and remaining_quantity > 0.                             *)
(***************************************************************************)
C6_RestingOrdersActive ==
    \A o \in RestingOrders :
        o.status \in {"Active", "PartiallyFilled"} /\ o.remaining_quantity > 0

\* A partially filled order rests next to an untouched one, after a call
\* that filled its incoming order completely.
C6_Witness ==
    /\ \E o \in RestingOrders : o.status = "PartiallyFilled"
    /\ \E o \in RestingOrders : o.status = "Active"
    /\ last.op = "add_order" /\ last.trades # <<>> /\ last.id \notin DOMAIN orders

(***************************************************************************)
(* C7: no empty levels.  Every price key of the bid or ask ladder maps to  *)
(* a non-empty order sequence: the operation that removes the last order   *)
(* of a level (by fill or by cancel) removes the level.                    *)
(***************************************************************************)
C7_NoEmptyLevels ==
    /\ \A p \in DOMAIN bids : bids[p] # <<>>
    /\ \A p \in DOMAIN asks : asks[p] # <<>>

\* The last order of a level was cancelled (its level is gone) in a book in
\* which an earlier fill had emptied a level as well.
C7_Witness ==
    /\ last.op = "cancel_order" /\ last.ok
    /\ last.returned[1].price \notin
         DOMAIN (IF last.returned[1].side = "Buy" THEN bids ELSE asks)
    /\ total_traded > 0

(***************************************************************************)
(* C8: cancellation total.  If get_order(id) is Some, cancel_order(id)     *)
(* succeeds; after it get_order(id) is None and a second cancel_order(id)  *)
(* returns OrderNotFound.                                                  *)
(***************************************************************************)
C8_CancelStep ==
    CancelStep =>
      /\ (get_order(last'.id) # None) =>
            /\ last'.ok
            /\ get_order_in(bids', asks', orders', last'.id) = None
            /\ cancel_order(bids', asks', orders', last'.id, next_id' - 1).err = "OrderNotFound"
      \* the second of two consecutive cancellations of the same id
      /\ (last.op = "cancel_order" /\ last.ok /\ last'.id = last.id) =>
            /\ last'.err = "OrderNotFound"
            /\ get_order_in(bids', asks', orders', last'.id) = None

\* C8: cancellation is total, for every cancel_order step.
C8_CancellationTotal == [][C8_CancelStep]_vars

C8_Witness ==
    /\ last.op = "cancel_order" /\ last.ok
    /\ get_order(last.id) = None
    /\ order_count >= 1

(***************************************************************************)
(* C9: cancel_order(id) for an id that is not in the index returns         *)
(* OrderNotFound and leaves both ladders, the index and recent_trades      *)
(* unchanged.                                                              *)
(***************************************************************************)
C9_UnknownIdStep ==
    (CancelStep /\ last'.id \notin DOMAIN orders) =>
      /\ ~last'.ok
      /\ last'.err = "OrderNotFound"
      /\ last'.returned = None
      /\ UNCHANGED <<bids, asks, orders, recent_trades>>

\* C9: every cancel_order step with an unknown id fails with OrderNotFound
\* and changes nothing.
C9_CancelUnknownId == [][C9_UnknownIdStep]_vars

\* An unknown id was cancelled on a book that holds orders and trades.
C9_Witness ==
    /\ last.op = "cancel_order" /\ last.err = "OrderNotFound"
    /\ order_count >= 1
    /\ recent_trades # <<>>

(***************************************************************************)
(* C10: a successful cancel_order(id) removes exactly the order with that  *)
(* id, decreases order_count() by one and returns that order with status   *)
(* Cancelled and the remaining_quantity it had while resting.              *)
(***************************************************************************)
C10_CancelResultStep ==
    (CancelStep /\ last'.ok) =>
      LET before == get_order(last'.id)
      IN /\ before # None
         /\ last'.returned # None
         /\ last'.returned[1].id = last'.id
         /\ last'.returned[1].status = "Cancelled"
         /\ last'.returned[1].remaining_quantity = before[1].remaining_quantity
         /\ last'.returned[1].original_quantity = before[1].original_quantity
         /\ last'.returned[1].side = before[1].side
         /\ last'.returned[1].price = before[1].price
         /\ RestingIds' = RestingIds \ {last'.id}
         /\ RestingOrders' = RestingOrders \ {before[1]}
         /\ RestingCount' = RestingCount - 1
         /\ order_count' = order_count - 1

\* C10: every successful cancel_order step removes and returns exactly the
\* order with that id, marked Cancelled.
C10_CancelReturnsOrder == [][C10_CancelResultStep]_vars

\* A partially filled order was cancelled.
C10_Witness ==
    /\ last.op = "cancel_order" /\ last.ok
    /\ last.returned[1].remaining_quantity < last.returned[1].original_quantity
    /\ last.returned[1].remaining_quantity > 0
(***************************************************************************)
(* C11: add_order is atomic.  Every call either returns Ok with the full   *)
(* list of the trades it executed (the returned quantities account for     *)
(* the whole change of the resting quantity), or returns an error and      *)
(* leaves the ladders, the id index and recent_trades as they were.        *)
(***************************************************************************)
C11_AtomicStep ==
    AddStep =>
        \/ /\ last'.ok
           /\ RestingRemaining' = RestingRemaining
                                     + last'.order[1].original_quantity
                                     - 2 * SumQty(last'.trades)
           /\ all_trades' = all_trades \o last'.trades
        \/ /\ ~last'.ok
           /\ last'.trades = <<>>
           /\ UNCHANGED <<bids, asks, orders, recent_trades>>

C12_FreshAddOk ==
    last.op = "add_order" =>
        /\ last.ok
        /\ last.err \notin {"InsufficientQuantity", "InvariantViolation"}

\* A fresh order that was filled in part against a resting order, which it
\* consumed, and whose rest was booked.
C12_Witness ==
    /\ last.op = "add_order"
    /\ last.ok
    /\ last.trades # <<>>
    /\ get_order(last.id) # None
    /\ get_order(last.id)[1].status = "PartiallyFilled"

(***************************************************************************)
(* C13: snapshot round trip.  For every reachable book B and               *)
(* B' = deserialize(serialize(B)), the two books agree on best_bid,        *)
(* best_ask, spread, order_count, market_depth(k) for every k and          *)
(* get_order(id) for every id; and the same order submitted to B and to B' *)
(* yields equal trade lists and leaves the two books in equal observable   *)
(* state.                                                                  *)
(***************************************************************************)
DepthArgs == 0..(MaxPrice + 1)

\* What the queries of the public API show of a book.
Observable(b, a, idx) ==
    [best_bid |-> best_bid_of(b),
     best_ask |-> best_ask_of(a),
     spread |-> spread_of(b, a),
     order_count |-> Cardinality(DOMAIN idx),
     market_depth |-> [k \in DepthArgs |->
                          [build \in Builds |-> market_depth_in(b, a, k, build)]],
     get_order |-> [id \in 1..MaxOrders |-> get_order_in(b, a, idx, id)]]

Restored == deserialize(serialize(bids, asks, orders, recent_trades))

SameOutcome(r1, r2) ==
    /\ r1.err = r2.err
    /\ r1.trades = r2.trades
    /\ r1.recent_trades = r2.recent_trades
    /\ Observable(r1.bids, r1.asks, r1.orders) = Observable(r2.bids, r2.asks, r2.orders)

FollowUpAgrees(B, order, now) ==
    SameOutcome(add_order(bids, asks, orders, recent_trades, order, now),
                add_order(B.bids, B.asks, B.orders, B.recent_trades, order, now))

\* The fields of the book, in the shape deserialize returns them.
Book ==
    [bids |-> bids, asks |-> asks, orders |-> orders,
     recent_trades |-> recent_trades, max_recent_trades |-> max_recent_trades]

ObservablyEqual(B) ==
    /\ Observable(B.bids, B.asks, B.orders) = Observable(bids, asks, orders)
    /\ B.recent_trades = recent_trades
    /\ next_id <= MaxOrders =>
           \A side \in Sides, price \in Prices, quantity \in Quantities :
               FollowUpAgrees(B, Order_new(next_id, side, price, quantity, next_id),
                              next_id)

StrictlyDecreasing(levels) ==
    \A i \in 1..(Len(levels) - 1) : levels[i].price > levels[i + 1].price

StrictlyIncreasing(levels) ==
    \A i \in 1..(Len(levels) - 1) : levels[i].price < levels[i + 1].price

StartsAt(levels, best) ==
    best # None => levels # <<>> /\ levels[1].price = best[1]

DepthSorted(d, k) ==
    /\ ~d.panic
    /\ Len(d.bids) <= k
    /\ Len(d.asks) <= k
    /\ StrictlyDecreasing(d.bids)
    /\ StrictlyIncreasing(d.asks)
    /\ k >= 1 => StartsAt(d.bids, best_bid) /\ StartsAt(d.asks, best_ask)

C15_DepthSorted ==
    \A k \in DepthArgs, build \in Builds : DepthSorted(market_depth(k, build), k)

(***************************************************************************)
(* C16: each level reported by market_depth(k) has a quantity equal to the *)
(* sum of the remaining quantities of the orders resting at that price and *)
(* an order_count equal to their number, both positive; best_bid_quantity  *)
(* and best_ask_quantity equal the quantity of the first bid and the first *)
(* ask level.                                                              *)
(***************************************************************************)
LevelAggregates(levels, ladder) ==
    \A i \in 1..Len(levels) :
        /\ levels[i].price \in DOMAIN ladder
        /\ levels[i].quantity = SumRemaining(ladder[levels[i].price])
        /\ levels[i].order_count = Len(ladder[levels[i].price])
        /\ levels[i].quantity > 0
        /\ levels[i].order_count > 0

FirstLevelQuantity(levels) ==
    IF levels = <<>> THEN None ELSE Some(levels[1].quantity)

DepthAggregates(d, bq, aq) ==
    /\ ~d.panic
    /\ ~bq.panic
    /\ ~aq.panic
    /\ LevelAggregates(d.bids, bids)
    /\ LevelAggregates(d.asks, asks)
    /\ bq.value = FirstLevelQuantity(d.bids)
    /\ aq.value = FirstLevelQuantity(d.asks)

C16_DepthAggregates ==
    \A k \in DepthArgs \ {0}, build \in Builds :
        DepthAggregates(market_depth(k, build),
                        best_bid_quantity(build), best_ask_quantity(build))

\* The same two statements on the books whose levels all stay inside the
\* u64 range.
NoLevelOverflows ==
    /\ \A p \in DOMAIN bids : ~sum_overflows(bids[p])
    /\ \A p \in DOMAIN asks : ~sum_overflows(asks[p])

DepthSortedInRange == NoLevelOverflows => C15_DepthSorted
DepthAggregatesInRange == NoLevelOverflows => C16_DepthAggregates

(***************************************************************************)
(* C17: after every add_order, recent_trades() is exactly the last         *)
(* min(N, total) trades of the complete trade history, in the order of     *)
(* emission, where N = max_recent_trades; its length never exceeds N and   *)
(* the oldest trades are the ones dropped.                                 *)
(***************************************************************************)
LastOf(history, n) == SubSeq(history, Len(history) - n + 1, Len(history))

RestingPrices(side) == {o.price : o \in {r \in RestingOrders : r.side = side}}

HighestOf(S) == IF S = {} THEN None ELSE Some(MaxOf(S))
LowestOf(S) == IF S = {} THEN None ELSE Some(MinOf(S))

C18_BestPrices ==
    /\ best_bid = HighestOf(RestingPrices("Buy"))
    /\ best_ask = LowestOf(RestingPrices("Sell"))
    /\ spread = IF RestingPrices("Buy") # {} /\ RestingPrices("Sell") # {}
                THEN Some(MinOf(RestingPrices("Sell")) - MaxOf(RestingPrices("Buy")))
                ELSE None

\* Buy orders rest at two prices, so that the highest and the lowest differ,
\* and no Sell order rests.
C18_Witness ==
    /\ Cardinality(RestingPrices("Buy")) >= 2
    /\ RestingPrices("Sell") = {}
    /\ best_bid = Some(MaxPrice)
    /\ spread = None

(***************************************************************************)
(* C19: the statuses Filled and Cancelled are terminal: once an Order has  *)
(* reached Filled or Cancelled, no call of fill or cancel changes its      *)
(* status.                                                                 *)
(***************************************************************************)
Terminal(o) == o.status \in {"Filled", "Cancelled"}

C19_TerminalStep == Terminal(ord[1]) => ord'[1].status = ord[1].status

C19_TerminalStatuses == [][C19_TerminalStep]_vars

(***************************************************************************)
(* C20: for an Order created by Order::new and subjected to any sequence   *)
(* of fill and cancel calls, remaining_quantity = 0 if and only if the     *)
(* status is Filled.                                                       *)
(***************************************************************************)
C20_ZeroIffFilled == (ord[1].remaining_quantity = 0) <=> (ord[1].status = "Filled")

\* The direction the code does keep: a Filled order has nothing left.
FilledHasNothingLeft == ord[1].status = "Filled" => ord[1].remaining_quantity = 0

(***************************************************************************)
(* C21: Order.fill(qty) succeeds iff qty <= remaining_quantity; on success *)
(* the remainder decreases by exactly qty and the status becomes Filled if *)
(* the remainder reaches 0 and PartiallyFilled otherwise; when             *)
(* qty > remaining it returns InsufficientQuantity{requested: qty,         *)
(* available: remaining} and leaves remaining_quantity and status as they  *)
(* were.                                                                   *)
(***************************************************************************)
FillSucceeded(before, quantity, after) ==
    /\ after.remaining_quantity = before.remaining_quantity - quantity
    /\ after.status = IF after.remaining_quantity = 0
                      THEN "Filled" ELSE "PartiallyFilled"

FillRefused(before, quantity, result, after) ==
    /\ result = [ok |-> FALSE, err |-> "InsufficientQuantity",
                 requested |-> quantity, available |-> before.remaining_quantity]
    /\ after.remaining_quantity = before.remaining_quantity
    /\ after.status = before.status

C21_FillContract ==
    ord_last.op = "fill" =>
        /\ ord_last.ok <=> ord_last.quantity <= ord_last.before.remaining_quantity
        /\ ord_last.ok => FillSucceeded(ord_last.before, ord_last.quantity, ord[1])
        /\ ~ord_last.ok => FillRefused(ord_last.before, ord_last.quantity,
                                       ord_last.result, ord[1])

\* A fill that was refused on an order already filled in part.
C21_Witness ==
    /\ ord_last.op = "fill"
    /\ ~ord_last.ok
    /\ ord_last.before.status = "PartiallyFilled"
    /\ ord_last.before.remaining_quantity < ord_last.before.original_quantity
    /\ ord_last.quantity > ord_last.before.remaining_quantity

(***************************************************************************)
(* C22: after Order.cancel() has been called on an order, further fills    *)
(* are impossible: every subsequent Order.fill(qty) leaves                 *)
(* remaining_quantity unchanged and the status Cancelled.                  *)
(***************************************************************************)
C22_NoFillAfterCancel ==
    (ord_last.op = "fill" /\ ord_last.before.status = "Cancelled") =>
        /\ ord[1].remaining_quantity = ord_last.before.remaining_quantity
        /\ ord[1].status = "Cancelled"

(***************************************************************************)
(* C23: every Trade emitted by add_order has quantity > 0, for every order *)
(* a caller can submit through the public API, including an order whose    *)
(* remaining_quantity the caller has already reduced to 0 with Order.fill  *)
(* before submitting it.                                                   *)
(***************************************************************************)
C23_TradeQuantityPositive ==
    last.op = "add_order" =>
        \A i \in 1..Len(last.trades) : last.trades[i].quantity > 0

(***************************************************************************)
(* C24: Quantity arithmetic is checked over the 64-bit unsigned range:     *)
(* adding two Quantities, or multiplying one by a scalar, with a           *)
(* mathematical result above 2^64 - 1 yields an InvalidQuantity error      *)
(* rather than a wrapped value or an abort.                                *)
(***************************************************************************)
C24_CheckedArithmetic ==
    (qty_last.op \in {"add", "mul"} /\ qty_last.exact > U64Modulus - 1) =>
        /\ ~qty_last.result.panic
        /\ ~qty_last.result.ok
        /\ qty_last.result.err = "InvalidQuantity"

(***************************************************************************)
(* C25: price priority in a sweep.  The trades returned by one add_order   *)
(* consume the best opposing level first: for an incoming Buy the trade    *)
(* prices are non-decreasing along the returned list (non-increasing for   *)
(* an incoming Sell), and a worse-priced level is touched only after every *)
(* order at all better-priced levels has been completely filled (no such   *)
(* level is left in the book when the call returns).                       *)
(***************************************************************************)
\* For an incoming order of the given side, p is a better opposing price
\* than q.
BetterFor(side, p, q) == IF side = "Buy" THEN p < q ELSE p > q

OpposingNow(side) == IF side = "Buy" THEN asks ELSE bids

SweepInPriceOrder(side, trades) ==
    /\ \A i \in 1..(Len(trades) - 1) :
          ~BetterFor(side, trades[i + 1].price, trades[i].price)
    /\ \A i \in 1..Len(trades) :
          /\ \A p \in DOMAIN OpposingNow(side) : ~BetterFor(side, p, trades[i].price)
          /\ trades[i].price # trades[Len(trades)].price
                => trades[i].price \notin DOMAIN OpposingNow(side)

C25_PricePriority ==
    last.op = "add_order" => SweepInPriceOrder(last.order[1].side, last.trades)

\* A sweep over two price levels.
C25_Witness ==
    /\ last.op = "add_order"
    /\ Len(last.trades) >= 2
    /\ last.trades[1].price # last.trades[Len(last.trades)].price

(***************************************************************************)
(* C26: after add_order(o) on a reachable book with a fresh order o, o     *)
(* rests in the book if and only if its quantity was not entirely matched; *)
(* when it rests it sits at price o.price on its own side as the last      *)
(* order of that level, with remaining = original minus the sum of its     *)
(* trade quantities, and get_order(o.id) returns it; when fully matched it *)
(* is in no ladder and not in the index.                                   *)
(***************************************************************************)
OwnNow(side) == IF side = "Buy" THEN bids ELSE asks

RestsAsLast(o, matched, level) ==
    /\ level # <<>>
    /\ level[Len(level)].id = o.id
    /\ level[Len(level)].remaining_quantity = o.original_quantity - matched
    /\ level[Len(level)].side = o.side
    /\ level[Len(level)].price = o.price
    /\ get_order(o.id) = Some(level[Len(level)])
    /\ \A i \in 1..(Len(level) - 1) : level[i].id # o.id

RestsWhereItBelongs(o, matched) ==
    /\ orders[o.id] = <<o.side, o.price>>
    /\ o.price \in DOMAIN OwnNow(o.side)
    /\ RestsAsLast(o, matched, OwnNow(o.side)[o.price])
    /\ \A r \in RestingOrders : r.id = o.id => r.side = o.side /\ r.price = o.price

RestIffUnmatched(o, matched) ==
    /\ (o.id \in DOMAIN orders) <=> (matched < o.original_quantity)
    /\ (o.id \in RestingIds) <=> (matched < o.original_quantity)
    /\ matched < o.original_quantity => RestsWhereItBelongs(o, matched)
    /\ matched >= o.original_quantity => get_order(o.id) = None

C26_RestIffUnmatched ==
    last.op = "add_order" => RestIffUnmatched(last.order[1], SumQty(last.trades))

\* The order was booked behind an older order of the same price.
C26_Witness ==
    /\ last.op = "add_order"
    /\ get_order(last.id) # None
    /\ Len(OwnNow(last.order[1].side)[last.order[1].price]) >= 2

(***************************************************************************)
(* C27: each execution of the match loop trades                            *)
(* x = min(incoming remaining, head order remaining) and reduces the       *)
(* remaining_quantity of the incoming order and of the head resting order  *)
(* by exactly x, so that at least one of the two is completely filled by   *)
(* every execution.                                                        *)
(***************************************************************************)
\* What is left of the incoming order before the i-th execution of the call.
IncomingBefore(order, trades, i) ==
    order.original_quantity - SumQty(SubSeq(trades, 1, i - 1))

\* The i-th execution, seen from the head order as it rested before the
\* call (head) and as it rests after it (after, None when removed).
ExecutionIsMin(x, incoming_before, head, after) ==
    /\ head # None
    /\ x = (IF incoming_before <= head[1].remaining_quantity
            THEN incoming_before ELSE head[1].remaining_quantity)
    /\ x = incoming_before \/ x = head[1].remaining_quantity
    /\ IF x = head[1].remaining_quantity
       THEN after = None
       ELSE /\ after # None
            /\ after[1].remaining_quantity = head[1].remaining_quantity - x

C27_ExecutionStep ==
    AddStep =>
        /\ \A i \in 1..Len(last'.trades) :
              ExecutionIsMin(last'.trades[i].quantity,
                             IncomingBefore(last'.order[1], last'.trades, i),
                             get_order(PassiveId(last'.trades[i], last'.id)),
                             get_order_in(bids', asks', orders',
                                          PassiveId(last'.trades[i], last'.id)))
        /\ get_order_in(bids', asks', orders', last'.id) # None =>
              get_order_in(bids', asks', orders', last'.id)[1].remaining_quantity
                  = IncomingBefore(last'.order[1], last'.trades,
                                   Len(last'.trades) + 1)

C27_TradeIsMinimum == [][C27_ExecutionStep]_vars

\* A call with two executions: the first filled the head, the second left
\* the next head filled in part.
C27_Witness ==
    /\ last.op = "add_order"
    /\ Len(last.trades) = 2
    /\ get_order(last.id) = None
    /\ get_order(PassiveId(last.trades[1], last.id)) = None
    /\ get_order(PassiveId(last.trades[2], last.id)) # None

(***************************************************************************)
(* C28: a resting order that is partially filled stays at the head of its  *)
(* price level with status PartiallyFilled: it keeps its position ahead of *)
(* every order inserted at that price after it, and it is the first order  *)
(* matched by the next crossing order.                                     *)
(***************************************************************************)
\* The head order that an execution filled in part is, after the call, the
\* head of the same level, PartiallyFilled, in front of the orders that
\* were behind it.
PartialFillKeepsHead(before, after, level_before, ladder_after) ==
    after # None =>
        /\ after[1].status = "PartiallyFilled"
        /\ position(level_before, before[1].id) >= 1
        /\ before[1].price \in DOMAIN ladder_after
        /\ ladder_after[before[1].price]
             = <<after[1]>> \o SubSeq(level_before,
                                      position(level_before, before[1].id) + 1,
                                      Len(level_before))

\* A partially filled resting order that is still in the book after a step
\* is still the head of its level, whatever was inserted behind it.
StaysAtHead(o, ladder_after) ==
    /\ o.price \in DOMAIN ladder_after
    /\ ladder_after[o.price][1].id = o.id
    /\ ladder_after[o.price][1].status = "PartiallyFilled"

\* The incoming order crosses the price of the resting order o, and no
\* opposing order rests at a better price.
NextToCross(incoming, o) ==
    /\ o.side # incoming.side
    /\ IF incoming.side = "Buy" THEN incoming.price >= o.price
                                ELSE incoming.price <= o.price
    /\ \A r \in RestingOrders :
          r.side = o.side => ~BetterFor(incoming.side, r.price, o.price)

C28_PartialStep ==
    /\ AddStep =>
          \A i \in 1..Len(last'.trades) :
              PartialFillKeepsHead(
                  get_order(PassiveId(last'.trades[i], last'.id)),
                  get_order_in(bids', asks', orders',
                               PassiveId(last'.trades[i], last'.id)),
                  OpposingNow(last'.order[1].side)[last'.trades[i].price],
                  ladder_of(IF last'.order[1].side = "Buy" THEN "Sell" ELSE "Buy",
                            bids', asks'))
    /\ \A o \in RestingOrders :
          (o.status = "PartiallyFilled" /\ o.id \in DOMAIN orders')
              => StaysAtHead(o, ladder_of(o.side, bids', asks'))
    /\ AddStep =>
          \A o \in RestingOrders :
              (o.status = "PartiallyFilled" /\ NextToCross(last'.order[1], o))
                  => /\ last'.trades # <<>>
                     /\ PassiveId(last'.trades[1], last'.id) = o.id

NotInLadder(ladder, id) ==
    \A p \in DOMAIN ladder : \A j \in 1..Len(ladder[p]) : ladder[p][j].id # id

FilledIsRemoved(before, x, b, a, idx, now) ==
    (before # None /\ before[1].remaining_quantity = x) =>
        /\ before[1].id \notin DOMAIN idx
        /\ NotInLadder(b, before[1].id)
        /\ NotInLadder(a, before[1].id)
        /\ before[1].price \in DOMAIN ladder_of(before[1].side, b, a)
              => ladder_of(before[1].side, b, a)[before[1].price] # <<>>
        /\ get_order_in(b, a, idx, before[1].id) = None
        /\ cancel_order(b, a, idx, before[1].id, now).err = "OrderNotFound"
        /\ cancel_order(b, a, idx, before[1].id, now).returned = None

C29_FilledStep ==
    AddStep =>
        \A i \in 1..Len(last'.trades) :
            FilledIsRemoved(get_order(PassiveId(last'.trades[i], last'.id)),
                            last'.trades[i].quantity,
                            bids', asks', orders', next_id)

C29_FilledOrderRemoved == [][C29_FilledStep]_vars

\* The latest call filled a resting order completely, which was the last
\* of its level: the level is gone, and the incoming order was left with a
\* rest.
C29_Witness ==
    /\ last.op = "add_order"
    /\ last.trades # <<>>
    /\ PassiveId(last.trades[1], last.id) \notin DOMAIN orders
    /\ last.trades[1].price \notin DOMAIN OpposingNow(last.order[1].side)
    /\ last.id \in DOMAIN orders

(***************************************************************************)
(* C30: in the match loop, if the head order of the best crossing opposing *)
(* level is not active-for-matching (status Filled or Cancelled),          *)
(* add_order stops matching and returns an InvariantViolation error.       *)
(***************************************************************************)
HeadOfBest(ladder, side) ==
    ladder[IF side = "Buy" THEN MinOf(DOMAIN ladder) ELSE MaxOf(DOMAIN ladder)][1]

\* The latest add_order left its order unfilled in front of a crossing
\* opposing level whose head is not active: the loop stopped at that head.
StoppedAtInactiveHead ==
    /\ last.op = "add_order"
    /\ SumQty(last.trades) < last.order[1].remaining_quantity
    /\ DOMAIN OpposingNow(last.order[1].side) # {}
    /\ can_match_at_price(last.order[1].side, last.order[1].price,
                          HeadOfBest(OpposingNow(last.order[1].side),
                                     last.order[1].side).price)
    /\ ~is_active(HeadOfBest(OpposingNow(last.order[1].side), last.order[1].side))

C30_InactiveHeadIsFatal ==
    StoppedAtInactiveHead => last.err = "InvariantViolation"

\* What the code does instead: the call succeeds and the order rests
\* across the inactive head.
RestsAcrossInactiveHead ==
    StoppedAtInactiveHead => (last.ok /\ last.id \in DOMAIN orders)

(***************************************************************************)
(* C31: an order whose status is already Cancelled or Filled when it is    *)
(* submitted to add_order is accepted (the call returns Ok) and is never   *)
(* rested: after the call it is in neither ladder and not in the id index, *)
(* whatever the state of the opposing ladder.                              *)
(***************************************************************************)
C31_TerminalNeverRests ==
    (last.op = "add_order" /\ Terminal(last.order[1])) =>
        /\ last.ok
        /\ last.id \notin DOMAIN orders
        /\ NotInLadder(bids, last.id)
        /\ NotInLadder(asks, last.id)

(***************************************************************************)
(* C32: a.can_match(b) is true if and only if a and b are on opposite      *)
(* sides, both have status Active or PartiallyFilled, and the Buy order's  *)
(* price >= the Sell order's price; consequently a.can_match(b) ==         *)
(* b.can_match(a) for all orders a, b.                                     *)
(***************************************************************************)
BuyOf(a, b) == IF a.side = "Buy" THEN a ELSE b

SellOf(a, b) == IF a.side = "Sell" THEN a ELSE b

Matchable(a, b) ==
    /\ a.side # b.side
    /\ a.status \in {"Active", "PartiallyFilled"}
    /\ b.status \in {"Active", "PartiallyFilled"}
    /\ BuyOf(a, b).price >= SellOf(a, b).price

C32_CanMatchSymmetric ==
    ord_last.op = "can_match" =>
        /\ ord_last.result = Matchable(ord[1], ord[2])
        /\ ord_last.result = can_match(ord[2], ord[1])

\* A Sell asked about a Buy priced above it: the two orders match, in
\* either direction.
C32_Witness ==
    /\ ord_last.op = "can_match"
    /\ ord_last.result
    /\ ord[1].side = "Sell"
    /\ ord[1].price < ord[2].price
    /\ ord[1].status = "PartiallyFilled"

(***************************************************************************)
(* C40: the ordering defined on Order (better price first by side, then    *)
(* earlier created_at) is a consistent total order: for every pair of      *)
(* orders a and b, including a Buy compared with a Sell, a.cmp(b) is the   *)
(* reverse of b.cmp(a).                                                    *)
(***************************************************************************)
C40_CmpAntisymmetric ==
    ord_last.op = "cmp" =>
        ord_last.result = reverse(Order_cmp(ord[2], ord[1]))

\* Between two orders of one side the comparison is the reverse of its
\* converse.
CmpAntisymmetricOnOneSide ==
    (ord_last.op = "cmp" /\ ord[1].side = ord[2].side) =>
        ord_last.result = reverse(Order_cmp(ord[2], ord[1]))

(***************************************************************************)
(* C33: for an Order created by Order::new and subjected to any sequence   *)
(* of fill and cancel calls (successful or failing),                       *)
(* 0 <= remaining_quantity <= original_quantity always holds,              *)
(* original_quantity never changes, and                                    *)
(* filled_quantity() + remaining_quantity == original_quantity.            *)
(***************************************************************************)
C33_QuantityBounds ==
    /\ 0 <= ord[1].remaining_quantity
    /\ ord[1].remaining_quantity <= ord[1].original_quantity
    /\ filled_quantity(ord[1]) + ord[1].remaining_quantity = ord[1].original_quantity
    /\ ord_last.op # "none" =>
          ord[1].original_quantity = ord_last.before.original_quantity

\* A fill that was refused on an order that an earlier fill had reduced.
C33_Witness ==
    /\ ord_last.op = "fill"
    /\ ~ord_last.ok
    /\ ord[1].status = "PartiallyFilled"
    /\ ord[1].remaining_quantity < ord[1].original_quantity
    /\ filled_quantity(ord[1]) > 0

(***************************************************************************)
(* C34: the book is never locked.  After any sequence of add_order and     *)
(* cancel_order calls, whenever both sides are non-empty best_bid is       *)
(* strictly less than best_ask (an incoming order whose price equals the   *)
(* best opposing price trades instead of resting), so spread() is strictly *)
(* positive when defined.                                                  *)
(***************************************************************************)
RestedShortOfOpposing ==
    (last.op = "add_order" /\ last.id \in DOMAIN orders) =>
        \A p \in DOMAIN OpposingNow(last.order[1].side) :
            /\ p # last.order[1].price
            /\ ~can_match_at_price(last.order[1].side, last.order[1].price, p)

C34_NeverLocked ==
    /\ (best_bid # None /\ best_ask # None) =>
          /\ best_bid[1] < best_ask[1]
          /\ spread # None
          /\ spread[1] > 0
    /\ spread # None => spread[1] > 0
    /\ RestedShortOfOpposing

\* An order priced exactly at the best opposing price traded at that price,
\* and both sides are populated afterwards.
C34_Witness ==
    /\ last.op = "add_order"
    /\ last.trades # <<>>
    /\ last.trades[1].price = last.order[1].price
    /\ best_bid # None
    /\ best_ask # None

(***************************************************************************)
(* C35: limit price is respected.  Every trade produced by add_order of an *)
(* incoming Buy has price <= the incoming order's price, and every trade   *)
(* produced for an incoming Sell has price >= the incoming order's price;  *)
(* an incoming order whose price does not cross the best opposing price    *)
(* produces no trade.                                                      *)
(***************************************************************************)
WithinLimit(incoming, trade) ==
    IF incoming.side = "Buy" THEN trade.price <= incoming.price
    ELSE trade.price >= incoming.price

BestOpposingNow(side) == IF side = "Buy" THEN best_ask ELSE best_bid

CrossesNow(incoming) ==
    /\ BestOpposingNow(incoming.side) # None
    /\ IF incoming.side = "Buy"
       THEN incoming.price >= BestOpposingNow(incoming.side)[1]
       ELSE incoming.price <= BestOpposingNow(incoming.side)[1]

C35_LimitStep ==
    AddStep =>
        /\ \A i \in 1..Len(last'.trades) :
              WithinLimit(last'.order[1], last'.trades[i])
        /\ ~CrossesNow(last'.order[1]) => last'.trades = <<>>

C35_LimitPriceRespected == [][C35_LimitStep]_vars

\* A Buy priced above the best ask swept two levels, each within its limit,
\* the second at its limit price.
C35_Witness ==
    /\ last.op = "add_order"
    /\ last.order[1].side = "Buy"
    /\ Len(last.trades) >= 2
    /\ last.trades[1].price < last.order[1].price
    /\ last.trades[2].price = last.order[1].price

(***************************************************************************)
(* C36: the match loop always terminates.  On any reachable book,          *)
(* add_order of any order completes after at most (number of orders        *)
(* resting on the opposing side before the call) executions, and the       *)
(* number of trades it returns never exceeds that number.                  *)
(***************************************************************************)
OpposingCountNow(side) ==
    CountLadder(OpposingNow(side), DOMAIN OpposingNow(side))

C36_BoundedStep ==
    AddStep =>
        /\ last'.ok
        /\ Len(last'.trades) <= OpposingCountNow(last'.order[1].side)
        /\ Len(all_trades') - Len(all_trades) <= OpposingCountNow(last'.order[1].side)

C36_MatchLoopBounded == [][C36_BoundedStep]_vars

\* The bound is met: the latest order traded once with each of the two
\* orders that rested opposite and emptied that side.
C36_Witness ==
    /\ last.op = "add_order"
    /\ Len(last.trades) = 2
    /\ last.trades[1].buy_order_id + last.trades[1].sell_order_id
         # last.trades[2].buy_order_id + last.trades[2].sell_order_id
    /\ OpposingNow(last.order[1].side) = EmptyMap
    /\ order_count = 0

(***************************************************************************)
(* C37: a successful cancel_order(id) changes nothing but the cancelled    *)
(* order: every other resting order keeps its side, price,                 *)
(* remaining_quantity and status, the relative FIFO order of the remaining *)
(* orders at the affected level is preserved, all other levels are         *)
(* untouched, and recent_trades is unchanged.                              *)
(***************************************************************************)
Without(level, id) == SelectSeq(level, LAMBDA o : o.id # id)

\* ladder_after is ladder_before with the order id taken out of its level,
\* and the level taken out if nothing is left in it.
LadderWithout(ladder_before, ladder_after, id) ==
    /\ DOMAIN ladder_after
         = {p \in DOMAIN ladder_before : Without(ladder_before[p], id) # <<>>}
    /\ \A p \in DOMAIN ladder_after :
          ladder_after[p] = Without(ladder_before[p], id)

C37_CancelFrameStep ==
    (CancelStep /\ last'.ok) =>
        /\ LadderWithout(bids, bids', last'.id)
        /\ LadderWithout(asks, asks', last'.id)
        /\ DOMAIN orders' = DOMAIN orders \ {last'.id}
        /\ \A id \in DOMAIN orders' :
              /\ orders'[id] = orders[id]
              /\ get_order_in(bids', asks', orders', id) = get_order(id)
        /\ recent_trades' = recent_trades
        /\ all_trades' = all_trades

C37_CancelFrame == [][C37_CancelFrameStep]_vars

\* The head of a level of three was cancelled; the two behind it remain, in
\* their order.
C37_Witness ==
    /\ last.op = "cancel_order"
    /\ last.ok
    /\ \E p \in DOMAIN OwnNow(last.returned[1].side) :
          /\ Len(OwnNow(last.returned[1].side)[p]) = 2
          /\ p = last.returned[1].price
          /\ last.id < OwnNow(last.returned[1].side)[p][1].id
          /\ OwnNow(last.returned[1].side)[p][1].id < OwnNow(last.returned[1].side)[p][2].id

(***************************************************************************)
(* C38: add_order of a fresh order that does not cross the best opposing   *)
(* price (or finds the opposing side empty) returns an empty trade list    *)
(* and leaves the opposing ladder, all existing orders on its own side and *)
(* recent_trades unchanged; the only change is that the order is appended  *)
(* to its own price level and added to the index.                          *)
(***************************************************************************)
LevelOf(ladder, p) == IF p \in DOMAIN ladder THEN ladder[p] ELSE <<>>

\* ladder_after is ladder_before with order o put behind its level.
LadderWith(ladder_before, ladder_after, o) ==
    /\ DOMAIN ladder_after = DOMAIN ladder_before \cup {o.price}
    /\ \A p \in DOMAIN ladder_after :
          ladder_after[p] = IF p = o.price
                            THEN LevelOf(ladder_before, p) \o <<o>>
                            ELSE ladder_before[p]

C38_PassiveAddStep ==
    (AddStep /\ ~CrossesNow(last'.order[1])) =>
        /\ last'.ok
        /\ last'.trades = <<>>
        /\ IF last'.order[1].side = "Buy"
           THEN asks' = asks /\ LadderWith(bids, bids', last'.order[1])
           ELSE bids' = bids /\ LadderWith(asks, asks', last'.order[1])
        /\ DOMAIN orders' = DOMAIN orders \cup {last'.id}
        /\ orders'[last'.id] = <<last'.order[1].side, last'.order[1].price>>
        /\ \A id \in DOMAIN orders :
              /\ orders'[id] = orders[id]
              /\ get_order_in(bids', asks', orders', id) = get_order(id)
        /\ recent_trades' = recent_trades
        /\ all_trades' = all_trades

C38_PassiveAddFrame == [][C38_PassiveAddStep]_vars

\* A Buy came to rest behind an older order of its level, short of the
\* ask.
C38_Witness ==
    /\ last.op = "add_order"
    /\ last.trades = <<>>
    /\ last.order[1].side = "Buy"
    /\ best_ask # None
    /\ Len(bids[last.order[1].price]) = 2
    /\ bids[last.order[1].price][2].id = last.id

(***************************************************************************)
(* C39: while an order rests in the book its id, side, price and           *)
(* original_quantity never change and its remaining_quantity never         *)
(* increases across any sequence of add_order and cancel_order calls; it   *)
(* only leaves the book by being completely filled or by cancel_order of   *)
(* its own id.                                                             *)
(***************************************************************************)
RestingIn(b, a) == LadderOrders(b) \cup LadderOrders(a)

\* Quantity executed against the resting order id by the trades of a call.
TradedWith(trades, incoming_id, id) ==
    SumQty(SelectSeq(trades, LAMBDA t : PassiveId(t, incoming_id) = id))

SameOrderLess(o, x, traded) ==
    /\ x.side = o.side
    /\ x.price = o.price
    /\ x.original_quantity = o.original_quantity
    /\ x.created_at = o.created_at
    /\ x.remaining_quantity <= o.remaining_quantity
    /\ x.remaining_quantity = o.remaining_quantity - traded

LeftBy(o, call, traded, is_add, is_cancel) ==
    \/ is_cancel /\ call.ok /\ call.id = o.id /\ traded = 0
    \/ is_add /\ call.ok /\ traded = o.remaining_quantity /\ traded > 0

RestingOrderStep(o, after, call, traded, is_add, is_cancel) ==
    /\ Cardinality(after) <= 1
    /\ \A x \in after : SameOrderLess(o, x, traded)
    /\ after = {} => LeftBy(o, call, traded, is_add, is_cancel)

C39_RestingStep ==
    \A o \in RestingOrders :
        RestingOrderStep(o, {x \in RestingIn(bids', asks') : x.id = o.id}, last',
                         IF AddStep THEN TradedWith(last'.trades, last'.id, o.id) ELSE 0,
                         AddStep, CancelStep)

C39_RestingOrderImmutable == [][C39_RestingStep]_vars

\* A resting order was filled in part by one call and is still in the book
\* with less remaining; another order left the book in the same call by
\* being filled.
C39_Witness ==
    /\ last.op = "add_order"
    /\ Len(last.trades) = 2
    /\ PassiveId(last.trades[1], last.id) \notin RestingIds
    /\ \E o \in RestingOrders :
          /\ o.id = PassiveId(last.trades[2], last.id)
          /\ o.remaining_quantity < o.original_quantity

====
